---- MODULE Spec2Model ----
(***************************************************************************)
(* TopUpDeploymentsService (apps/api, deployment/services/top-up-         *)
(* deployments): one run of topUpDeployments as a state machine.           *)
(*                                                                         *)
(* Every await of the service on a collaborator (wallet address, grant     *)
(* page, fee allowance, balance) is a point where the run can be           *)
(* interleaved with the other pending calls; the code between two awaits   *)
(* runs to completion and is one action.  Every collaborator call either   *)
(* returns or throws.                                                      *)
(***************************************************************************)
EXTENDS Integers, Sequences, FiniteSets, Bags

\* ---------------------------------------------------------------- bounds

\* Grants a small registry holds for one wallet role.
MaxGrants == 2
\* Largest page a small registry serves (it may serve less than the limit).
MaxPageCap == 2

\* Per-grant lookups that throw in one run.
MaxGrantFaults == 2

\* Draining deployments one owner has.
MaxDeployments == 2

\* Policy calls (calculateTopUpAmount, validateTopUpAmount) that throw in one
\* run.
MaxPolicyFaults == 1

\* ------------------------------------------------------ program constants

CONCURRENCY == 10

UNLIMITED_FEES_MANAGED_BALANCE == 1000000

\* ------------------------------------------------------------------ data

CustodialRoles == {"UAKT_TOP_UP", "USDC_TOP_UP"}

ManagedRole == "MANAGED"

Roles == CustodialRoles \cup {ManagedRole}

\* wallets (line 41) and the managed wallet (line 55), by injected role.
OwnerTypeOf(role) == IF role \in CustodialRoles THEN "CUSTODIAL" ELSE "MANAGED"

\* The filter gone wrong: the sides swapped.
SideOfSwapped(role) == IF role \in CustodialRoles THEN "granter" ELSE "grantee"

\* side of the grant filter each pass asks for (lines 45 and 56).
SideOf(role) == IF role \in CustodialRoles THEN "grantee" ELSE "granter"

\* What MasterWalletService.getFirstAddress resolves to, per role.
WalletAddress(role) ==
  CASE role = "UAKT_TOP_UP" -> "akash1uakt"
    [] role = "USDC_TOP_UP" -> "akash1usdc"
    [] OTHER -> "akash1managed"

DenomOf(role) == IF role = "USDC_TOP_UP" THEN "uusdc" ELSE "uakt"

OwnerNames == <<"owner1", "owner2", "owner3", "owner4", "owner5", "owner6">>

\* Amounts travel as decimal strings; here a string is its sequence of
\* characters.
Amount500 == <<"5", "0", "0">>

Amount42 == <<"4", "2">>

Amount5 == <<"5">>

Amount7 == <<"7">>

Amount0 == <<"0">>

None == [none |-> TRUE]

\* DeploymentAllowance: granter, grantee, authorization.spend_limit.
Grant(granter, grantee, denom, amount) ==
  [granter |-> granter, grantee |-> grantee,
   authorization |-> [spend_limit |-> [denom |-> denom, amount |-> amount]]]

\* The i-th grant the registry holds for a role: the custodial top-up wallets
\* are grantees of their owners, the managed wallet is the granter.
GrantOfRole(role, i) ==
  IF role \in CustodialRoles
    THEN Grant(OwnerNames[i], WalletAddress(role), DenomOf(role), Amount500)
    ELSE Grant(WalletAddress(role), OwnerNames[i], DenomOf(role), Amount500)

RECURSIVE Concat(_)
Concat(seqs) == IF seqs = <<>> THEN <<>> ELSE Head(seqs) \o Concat(Tail(seqs))

\* A registry of n[role] distinct grants per role.
RegistryOf(n) ==
  Concat(<<[i \in 1..n["UAKT_TOP_UP"] |-> GrantOfRole("UAKT_TOP_UP", i)],
           [i \in 1..n[ManagedRole] |-> GrantOfRole(ManagedRole, i)],
           [i \in 1..n["USDC_TOP_UP"] |-> GrantOfRole("USDC_TOP_UP", i)]>>)

\* Fee allowances the ledger can answer with: allowance.spend_limit is a list
\* of coins, at most one per denom.
Coin(denom, amount) == [denom |-> denom, amount |-> amount]

FeeAllowance(coins) == [allowance |-> [spend_limit |-> coins]]

RichFeeAllowances ==
  {FeeAllowance(<<>>),
   FeeAllowance(<<Coin("uakt", Amount5)>>),
   FeeAllowance(<<Coin("uusdc", Amount7)>>),
   FeeAllowance(<<Coin("uakt", Amount5), Coin("uusdc", Amount7)>>),
   FeeAllowance(<<Coin("uusdc", Amount7), Coin("uakt", Amount0)>>)}

RichBalances == {[amount |-> Amount42], [amount |-> Amount0]}

\* The environments a run is checked in: the registry's grants, the largest
\* page the registry serves, and whether the ledger's answers vary.
SmallEnvs ==
  {[grants |-> RegistryOf(n), pageCap |-> c, rich |-> FALSE, draining |-> <<>>] :
     n \in [Roles -> 0..MaxGrants], c \in 1..MaxPageCap}

\* One grant, every ledger answer.
RichEnvs ==
  {[grants |-> <<GrantOfRole(r, 1)>>, pageCap |-> CONCURRENCY, rich |-> TRUE,
    draining |-> <<>>] : r \in Roles}

\* Registries that fill whole pages: 2 * CONCURRENCY + 3 grants of one shape
\* for one role (pages of 10, 10 and 3).
FullPageEnvs ==
  {[grants |-> [i \in 1..(2 * CONCURRENCY + 3) |-> GrantOfRole(r, 1)],
    pageCap |-> 2 * CONCURRENCY, rich |-> FALSE, draining |-> <<>>] : r \in Roles}

\* A draining deployment of an owner.
Deployment(owner, dseq) == [owner |-> owner, dseq |-> dseq]

\* Both custodial wallets fill a page and start another: CONCURRENCY + 1
\* grants of one shape each, and one managed grant whose owner has a
\* draining deployment.
TwoFullPageEnvs ==
  {[grants |-> [i \in 1..(CONCURRENCY + 1) |-> GrantOfRole("UAKT_TOP_UP", 1)]
               \o [i \in 1..(CONCURRENCY + 1) |-> GrantOfRole("USDC_TOP_UP", 1)]
               \o <<GrantOfRole(ManagedRole, 2)>>,
    pageCap |-> 2 * CONCURRENCY, rich |-> FALSE,
    draining |-> <<Deployment(OwnerNames[2], 1)>>]}


\* Owners with draining deployments: two grants (two pages) of one custodial
\* wallet and one managed grant; owner1, granter of the first custodial grant
\* and grantee of the managed one, has 1..MaxDeployments deployments.
DrainingEnvs ==
  {[grants |-> <<GrantOfRole(r, 1), GrantOfRole(r, 2), GrantOfRole(ManagedRole, 1)>>,
    pageCap |-> 1, rich |-> FALSE,
    draining |-> [i \in 1..n |-> Deployment(OwnerNames[1], i)]] :
     r \in CustodialRoles, n \in 1..MaxDeployments}

\* A registry that also holds grants on the other side of each wallet: one
\* a custodial wallet issued, one the managed wallet received.
CrossEnvs ==
  {[grants |-> <<GrantOfRole(r, 1),
                 Grant(WalletAddress(r), OwnerNames[2], DenomOf(r), Amount500),
                 Grant(OwnerNames[3], WalletAddress(ManagedRole), "uakt", Amount500),
                 GrantOfRole(ManagedRole, 1)>>,
    pageCap |-> c, rich |-> FALSE, draining |-> <<>>] :
     r \in CustodialRoles, c \in 1..MaxPageCap}

Envs == SmallEnvs \cup RichEnvs \cup FullPageEnvs \cup DrainingEnvs \cup CrossEnvs

\* ----------------------------------------------------------------- state

VARIABLES
  env,              \* the registry and ledger of this run (fixed by Init)
  run,              \* the promise of topUpDeployments: idle, running, done, failed
  rolePc,           \* where each role's pass stands
  address,          \* the address each wallet resolved to
  threw,            \* per role, the wallet or registry call that threw
  pageNo,           \* pages delivered to onPage, per role
  inflight,         \* per role, the bag of per-grant operations started
  nInvoked,         \* topUpForGrant invocations, per owner type
  nFeeLookups,      \* getFeeAllowanceForGranterAndGrantee calls
  nBalanceLookups,  \* getBalance calls
  sinkCalls,        \* sentry.captureEvent(toEvent(error)) calls
  failedLogs,       \* the TOP_UP_FAILED records logged
  nReturned,        \* topUpForGrant calls that returned normally
  tasks,            \* the bag of per-deployment tasks topUpForGrant started
  unhandled         \* rejections of per-deployment tasks, which nothing awaits

vars == <<env, run, rolePc, address, threw, pageNo, inflight, nInvoked, nFeeLookups,
          nBalanceLookups, sinkCalls, failedLogs, nReturned, tasks, unhandled>>

OwnerTypes == {"CUSTODIAL", "MANAGED"}

\* address of a wallet that was not asked yet.
Unresolved == "unresolved"

\* Stages of one execWithErrorHandler(() => topUpForGrant(ownerType, grant)):
\*   fee      awaiting getFeeAllowanceForGranterAndGrantee (line 105)
\*   balance  awaiting getBalance (line 92)
\*   ok       topUpForGrant returned, the wrapper returned
\*   caught   topUpForGrant threw, the catch block ran, the wrapper returned
\*   raised   the catch block itself threw, the wrapper rejected
Settled == {"ok", "caught", "raised"}

Min(a, b) == IF a < b THEN a ELSE b

RECURSIVE SeqToBag(_)
SeqToBag(s) ==
  IF s = <<>> THEN EmptyBag ELSE SetToBag({Head(s)}) (+) SeqToBag(Tail(s))

BagReplace(B, old, new) == (B (-) SetToBag({old})) (+) SetToBag({new})

\* The sub-bag of the entries that satisfy Test.
BagSelect(B, Test(_)) ==
  [e \in {x \in BagToSet(B) : Test(x)} |-> B[e]]

BagCount(B, Test(_)) == BagCardinality(BagSelect(B, Test))

\* --------------------------------------------------------- pure functions

Digit(c) ==
  CASE c = "0" -> 0 [] c = "1" -> 1 [] c = "2" -> 2 [] c = "3" -> 3
    [] c = "4" -> 4 [] c = "5" -> 5 [] c = "6" -> 6 [] c = "7" -> 7
    [] c = "8" -> 8 [] c = "9" -> 9

\* parseFloat on a string of decimal digits.
RECURSIVE ParseDigits(_, _)
ParseDigits(s, acc) ==
  IF s = <<>> THEN acc ELSE ParseDigits(Tail(s), 10 * acc + Digit(Head(s)))

ParseFloat(s) == ParseDigits(s, 0)

\* Array.prototype.find by denom: the index of the first match, 0 for none.
RECURSIVE FindDenom(_, _, _)
FindDenom(limits, denom, i) ==
  IF i > Len(limits) THEN 0
  ELSE IF limits[i].denom = denom THEN i
  ELSE FindDenom(limits, denom, i + 1)

\* retrieveFeesLimit gone wrong: the first coin of the list, whatever its
\* denom.
RetrieveFeesLimitFirstCoin(feesAllowance, denom) ==
  LET limits == feesAllowance.allowance.spend_limit
  IN IF limits # <<>> THEN ParseFloat(limits[1].amount) ELSE 0

\* retrieveFeesLimit gone wrong: a missing denom is marked with -1.
RetrieveFeesLimitMinusOne(feesAllowance, denom) ==
  LET limits == feesAllowance.allowance.spend_limit
      found == FindDenom(limits, denom, 1)
  IN IF found # 0 THEN ParseFloat(limits[found].amount) ELSE -1

\* retrieveFeesLimit, once the fee allowance arrived.
RetrieveFeesLimit(feesAllowance, denom) ==
  LET limits == feesAllowance.allowance.spend_limit
      found == FindDenom(limits, denom, 1)
  IN IF found # 0 THEN ParseFloat(limits[found].amount) ELSE 0

Reverse(s) == [i \in 1..Len(s) |-> s[Len(s) + 1 - i]]

\* sides gone wrong: never reversed.
SidesUnreversed(ownerType, grant) == <<grant.granter, grant.grantee>>

\* collectWalletBalances: sides, reversed for a managed owner.
Sides(ownerType, grant) ==
  LET sides == <<grant.granter, grant.grantee>>
  IN IF ownerType = "MANAGED" THEN Reverse(sides) ELSE sides

\* The owner gone wrong: the grantee whoever the owner is.
OwnerAlwaysGrantee(ownerType, grant) == grant.grantee

\* topUpForGrant: the owner whose deployments are looked up.
OwnerOf(ownerType, grant) ==
  IF ownerType = "CUSTODIAL" THEN grant.granter ELSE grant.grantee

\* retrieveDrainingDeployments.  The service's own body is not implemented
\* yet and returns no deployment; the environments with draining deployments
\* stand for the deployment source it is the hook of.
RetrieveDrainingDeployments(owner) ==
  SelectSeq(env.draining, LAMBDA d : d.owner = owner)

\* calculateTopUpAmount, not implemented yet: 0.
CalculateTopUpAmount(deployment) == 0

\* ------------------------------------------------------ per-grant operation

\* What is known of one per-grant operation; None where not reached yet.
BlankEntry(ownerType, grant) ==
  [ownerType |-> ownerType, grant |-> grant, stage |-> "fee",
   feeReq |-> None, feeResp |-> None, feesLimit |-> None,
   balReq |-> None, balResp |-> None, balances |-> None,
   deploymentsOf |-> None, drainingDeployments |-> None, error |-> None,
   sentryEventId |-> None]

\* collectWalletBalances, line 92: the balance request it issues.
BalanceRequest(ownerType, grant) ==
  [address |-> Sides(ownerType, grant)[1],
   denom |-> grant.authorization.spend_limit.denom]

\* retrieveFeesLimit, line 105: the fee-allowance request it issues.
FeeRequest(ownerType, grant) ==
  [granter |-> Sides(ownerType, grant)[1], grantee |-> Sides(ownerType, grant)[2]]

\* topUpForGrant gone wrong: a custodial owner's balance is asked for
\* together with the fee allowance.
StartGrantBothLookups(ownerType, grant) ==
  [BlankEntry(ownerType, grant) EXCEPT
     !.stage = IF ownerType = "MANAGED" THEN "balance" ELSE "fee",
     !.feesLimit = IF ownerType = "MANAGED" THEN UNLIMITED_FEES_MANAGED_BALANCE
                   ELSE None,
     !.feeReq = IF ownerType = "MANAGED" THEN None
                ELSE FeeRequest(ownerType, grant),
     !.balReq = BalanceRequest(ownerType, grant)]

\* topUpForGrant gone wrong: the fee allowance is asked for whoever the
\* owner is.
StartGrantAlwaysFee(ownerType, grant) ==
  [BlankEntry(ownerType, grant) EXCEPT
     !.stage = "fee",
     !.feeReq = FeeRequest(ownerType, grant)]

\* topUpForGrant up to its first await: a managed owner gets the sentinel and
\* goes straight to the balance, a custodial one asks for the fee allowance.
StartGrant(ownerType, grant) ==
  LET isManaged == ownerType = "MANAGED"
  IN IF isManaged
       THEN [BlankEntry(ownerType, grant) EXCEPT
               !.stage = "balance",
               !.feesLimit = UNLIMITED_FEES_MANAGED_BALANCE,
               !.balReq = BalanceRequest(ownerType, grant)]
       ELSE [BlankEntry(ownerType, grant) EXCEPT
               !.stage = "fee",
               !.feeReq = FeeRequest(ownerType, grant)]

\* The fee allowance arrived: feesLimit is set and the balance is asked for.
FeeArrived(e, feesAllowance) ==
  [e EXCEPT !.stage = "balance",
            !.feeResp = feesAllowance,
            !.feesLimit = RetrieveFeesLimit(feesAllowance,
                                            e.grant.authorization.spend_limit.denom),
            !.balReq = BalanceRequest(e.ownerType, e.grant)]

\* topUpForGrant gone wrong: it awaits the tasks it started.
StageAwaitsTasks(deployments) == IF deployments = <<>> THEN "ok" ELSE "policy"

\* topUpForGrant, lines 72-76: the per-deployment tasks are started by map
\* and not awaited; topUpForGrant returns whatever they do.
StageAfterTasksStarted(deployments) == "ok"

\* The balance arrived: collectWalletBalances returns its record, topUpForGrant
\* looks the owner's draining deployments up, starts their tasks and returns.
BalanceArrived(e, response) ==
  [e EXCEPT !.stage = StageAfterTasksStarted(
                        RetrieveDrainingDeployments(OwnerOf(e.ownerType, e.grant))),
            !.balResp = response,
            !.balances = [denom |-> e.grant.authorization.spend_limit.denom,
                          feesLimit |-> e.feesLimit,
                          deploymentLimit |->
                            ParseFloat(e.grant.authorization.spend_limit.amount),
                          balance |-> ParseFloat(response.amount),
                          isManaged |-> e.ownerType = "MANAGED"],
            !.deploymentsOf = OwnerOf(e.ownerType, e.grant),
            !.drainingDeployments =
              RetrieveDrainingDeployments(OwnerOf(e.ownerType, e.grant))]

\* topUpForGrant, lines 72-75: one task per draining deployment, each started
\* up to its await of calculateTopUpAmount.
StartTasks(e) ==
  [i \in 1..Len(e.drainingDeployments) |->
     [ownerType |-> e.ownerType, grant |-> e.grant,
      deployment |-> e.drainingDeployments[i], balances |-> e.balances,
      stage |-> "calculating", validated |-> None]]

\* calculateTopUpAmount resolved: validateTopUpAmount(topUpAmount, balances) is
\* called; it returns, or throws and the task rejects.
TaskCalculated(t, validateReturns) ==
  [t EXCEPT !.stage = IF validateReturns THEN "validated" ELSE "rejected",
            !.validated = [amount |-> CalculateTopUpAmount(t.deployment),
                           balances |-> t.balances]]

\* calculateTopUpAmount rejected: the task rejects.
TaskRejected(t) == [t EXCEPT !.stage = "rejected"]

\* The wrapper gone wrong: after reporting the error it leaves the operation
\* where it was, to be tried again.
ExecWithErrorHandlerRetry(e, error, sinkReturns, eventId) == e

\* execWithErrorHandler's catch block: the error goes to the sink; when the
\* sink returns an event id TOP_UP_FAILED is logged and the wrapper returns,
\* when the sink throws the wrapper rejects.
ExecWithErrorHandlerCatch(e, error, sinkReturns, eventId) ==
  IF sinkReturns
    THEN [e EXCEPT !.stage = "caught", !.error = error, !.sentryEventId = eventId]
    ELSE [e EXCEPT !.stage = "raised", !.error = error]

\* -------------------------------------------------------------- registry

\* paginateDeploymentGrants: the grants that match the filter, in registry
\* order.
FilterGrants(side, addr) == SelectSeq(env.grants, LAMBDA g : g[side] = addr)

\* The registry serves pages of the requested size, or of its own cap when
\* that is smaller.
PageSize(limit) == Min(limit, env.pageCap)

\* The k-th page of a list (an empty registry has one, empty, page).
PageOf(list, size, k) == SubSeq(list, (k - 1) * size + 1, Min(k * size, Len(list)))

\* pagination.next_key after page k.
HasNextPage(list, size, k) == k * size < Len(list)

\* The limit gone wrong: two pages' worth.
PageLimitDoubled == 2 * CONCURRENCY

\* The page limit gone wrong: one more than the concurrency.
PageLimitPlusOne == CONCURRENCY + 1

\* The limit topUpDeployments asks for (lines 45 and 56).
PageLimit == CONCURRENCY

GrantsOfRole(r) == FilterGrants(SideOf(r), address[r])

\* What the ledger may answer in this run.
FeeResponses ==
  IF env.rich THEN RichFeeAllowances
  ELSE {FeeAllowance(<<Coin("uakt", Amount5), Coin("uusdc", Amount7)>>)}

BalanceResponses == IF env.rich THEN RichBalances ELSE {[amount |-> Amount42]}

\* The opaque event ids sentry.captureEvent may return.
EventIds == IF env.rich THEN {"event1", "event2"} ELSE {"event1"}

\* ------------------------------------------------------ promises of a pass

IsSettled(e) == e.stage \in Settled

IsPending(e) == ~IsSettled(e)

\* Promise.all(grants.map(...)) of onPage (lines 46-50, 57-61) rejects as
\* soon as one wrapper rejects ...
OnPageRejected(bag) == \E e \in BagToSet(bag) : e.stage = "raised"

\* onPage gone wrong: the wrappers are started and not awaited.
OnPageResolvedAtOnce(bag) == TRUE

\* ... and resolves once every wrapper of the page returned.
OnPageResolved(bag) == \A e \in BagToSet(bag) : e.stage \in {"ok", "caught"}

\* Where a pass goes while onPage of page k is awaited: paginate rejects with
\* onPage, asks for the next page when onPage resolved and there is one, and
\* resolves after the last page.
AfterPage(r, bag, k) ==
  IF OnPageRejected(bag) THEN "failed"
  ELSE IF ~OnPageResolved(bag) THEN "page"
  ELSE IF HasNextPage(GrantsOfRole(r), PageSize(PageLimit), k) THEN "fetching"
  ELSE "done"

\* The join gone wrong: the first custodial pass to resolve lets go.
CustodialJoinAny(pcs) == \E r \in CustodialRoles : pcs[r] = "done"

\* await Promise.all(topUpAllCustodialDeployments), line 53.
CustodialJoin(pcs) == \A r \in CustodialRoles : pcs[r] = "done"

\* A pass moved to pc.  A rejected pass rejects topUpDeployments (once); the
\* managed pass starts when every custodial pass resolved; topUpDeployments
\* resolves with the managed pass.
RoleStep(r, pc) ==
  LET pcs == [rolePc EXCEPT ![r] = pc]
      startManaged == /\ r \in CustodialRoles
                      /\ pc = "done"
                      /\ rolePc[ManagedRole] = "idle"
                      /\ run = "running"
                      /\ CustodialJoin(pcs)
  IN /\ rolePc' = IF startManaged THEN [pcs EXCEPT ![ManagedRole] = "address"]
                  ELSE pcs
     /\ run' = IF run # "running" THEN run
               ELSE IF pc = "failed" THEN "failed"
               ELSE IF r = ManagedRole /\ pc = "done" THEN "done"
               ELSE run

\* An entry of role r changed: the pass moves when it is awaiting onPage.
EntryStep(r, bag) ==
  /\ inflight' = [inflight EXCEPT ![r] = bag]
  /\ IF rolePc[r] = "page"
       THEN RoleStep(r, AfterPage(r, bag, pageNo[r]))
       ELSE UNCHANGED <<rolePc, run>>

\* The fan-out gone wrong: only the first wallet's pass starts at the call.
StartsAtCallFirstOnly(r) == r = "UAKT_TOP_UP"

\* A throw gone wrong: swallowed, the pass resolves.
PassAfterThrowSwallowed == "done"

\* wallets.map(async wallet => ...), line 43: the pass of every custodial
\* wallet starts when topUpDeployments is called.
StartsAtCall(r) == TRUE

\* No try/catch surrounds paginateDeploymentGrants (lines 45, 56) or
\* getFirstAddress (lines 44, 55): a pass whose call threw rejects.
PassAfterThrow == "failed"

\* ---------------------------------------------------------------- actions

InitIn(envs) ==
  /\ env \in envs
  /\ run = "idle"
  /\ rolePc = [r \in Roles |-> "idle"]
  /\ address = [r \in Roles |-> Unresolved]
  /\ threw = [r \in Roles |-> "nothing"]
  /\ pageNo = [r \in Roles |-> 0]
  /\ inflight = [r \in Roles |-> EmptyBag]
  /\ nInvoked = [t \in OwnerTypes |-> 0]
  /\ nFeeLookups = 0
  /\ nBalanceLookups = 0
  /\ sinkCalls = 0
  /\ failedLogs = {}
  /\ nReturned = 0
  /\ tasks = EmptyBag
  /\ unhandled = 0

Init == InitIn(Envs)

\* A run over registries that fill the pages of both custodial wallets.
InitFullPages == InitIn(TwoFullPageEnvs)

\* topUpDeployments is called: both custodial wallets are asked for their
\* address (lines 41-44).
TopUpDeployments ==
  /\ run = "idle"
  /\ run' = "running"
  /\ rolePc' = [r \in Roles |->
                  IF r \in CustodialRoles /\ StartsAtCall(r) THEN "address" ELSE "idle"]
  /\ UNCHANGED <<env, address, threw, pageNo, inflight, nInvoked, nFeeLookups,
                 nBalanceLookups, sinkCalls, failedLogs, nReturned, tasks, unhandled>>

\* getFirstAddress returned: the first page is asked for.
GetFirstAddressReturns(r) ==
  /\ rolePc[r] = "address"
  /\ address' = [address EXCEPT ![r] = WalletAddress(r)]
  /\ RoleStep(r, "fetching")
  /\ UNCHANGED <<env, threw, pageNo, inflight, nInvoked, nFeeLookups, nBalanceLookups,
                 sinkCalls, failedLogs, nReturned, tasks, unhandled>>

\* getFirstAddress threw: the pass rejects.
GetFirstAddressThrows(r) ==
  /\ rolePc[r] = "address"
  /\ threw' = [threw EXCEPT ![r] = "getFirstAddress"]
  /\ RoleStep(r, PassAfterThrow)
  /\ UNCHANGED <<env, address, pageNo, inflight, nInvoked, nFeeLookups,
                 nBalanceLookups, sinkCalls, failedLogs, nReturned, tasks, unhandled>>

\* A page arrived: onPage starts execWithErrorHandler(topUpForGrant) for every
\* grant of it, each running to its first await.
PageReturns(r) ==
  /\ rolePc[r] = "fetching"
  /\ LET k == pageNo[r] + 1
         page == PageOf(GrantsOfRole(r), PageSize(PageLimit), k)
         started == [i \in 1..Len(page) |-> StartGrant(OwnerTypeOf(r), page[i])]
         bag == BagSelect(inflight[r], IsPending) (+) SeqToBag(started)
         fees == Cardinality({i \in 1..Len(page) : started[i].stage = "fee"})
     IN /\ pageNo' = [pageNo EXCEPT ![r] = k]
        /\ inflight' = [inflight EXCEPT ![r] = bag]
        /\ nInvoked' = [nInvoked EXCEPT ![OwnerTypeOf(r)] = @ + Len(page)]
        /\ nFeeLookups' = nFeeLookups + fees
        /\ nBalanceLookups' = nBalanceLookups + (Len(page) - fees)
        /\ RoleStep(r, AfterPage(r, bag, k))
  /\ UNCHANGED <<env, address, threw, sinkCalls, failedLogs, nReturned, tasks,
                 unhandled>>

\* The page request failed: paginateDeploymentGrants rejects, and the pass.
PageThrows(r) ==
  /\ rolePc[r] = "fetching"
  /\ threw' = [threw EXCEPT ![r] = "paginateDeploymentGrants"]
  /\ RoleStep(r, PassAfterThrow)
  /\ UNCHANGED <<env, address, pageNo, inflight, nInvoked, nFeeLookups,
                 nBalanceLookups, sinkCalls, failedLogs, nReturned, tasks, unhandled>>

\* getFeeAllowanceForGranterAndGrantee returned for one grant.
FeeAllowanceReturns(r) ==
  \E e \in BagToSet(inflight[r]), feesAllowance \in FeeResponses :
    /\ e.stage = "fee"
    /\ EntryStep(r, BagReplace(inflight[r], e, FeeArrived(e, feesAllowance)))
    /\ nBalanceLookups' = nBalanceLookups + 1
    /\ UNCHANGED <<env, address, threw, pageNo, nInvoked, nFeeLookups, sinkCalls,
                   failedLogs, nReturned, tasks, unhandled>>

\* getBalance returned for one grant.
BalanceReturns(r) ==
  \E e \in BagToSet(inflight[r]), response \in BalanceResponses :
    /\ e.stage = "balance"
    /\ EntryStep(r, BagReplace(inflight[r], e, BalanceArrived(e, response)))
    /\ nReturned' = nReturned + 1
    /\ tasks' = tasks (+) SeqToBag(StartTasks(BalanceArrived(e, response)))
    /\ UNCHANGED <<env, address, threw, pageNo, nInvoked, nFeeLookups,
                   nBalanceLookups, sinkCalls, failedLogs, unhandled>>

\* A lookup of one grant threw: topUpForGrant throws and the catch block of
\* execWithErrorHandler runs; the sink returns an event id or throws.
GrantThrows(r, stage, error) ==
  \E e \in BagToSet(inflight[r]), sinkReturns \in BOOLEAN, eventId \in EventIds :
    /\ sinkReturns \/ eventId = "event1"
    /\ sinkCalls < MaxGrantFaults
    /\ e.stage = stage
    /\ sinkCalls' = sinkCalls + 1
    /\ failedLogs' = IF sinkReturns
                       THEN failedLogs \cup {[event |-> "TOP_UP_FAILED",
                                              error |-> error,
                                              sentryEventId |-> eventId]}
                       ELSE failedLogs
    /\ EntryStep(r, BagReplace(inflight[r], e,
                       ExecWithErrorHandlerCatch(e, error, sinkReturns, eventId)))
    /\ UNCHANGED <<env, address, threw, pageNo, nInvoked, nFeeLookups,
                   nBalanceLookups, nReturned, tasks, unhandled>>

FeeAllowanceThrows(r) == GrantThrows(r, "fee", "FEE_ALLOWANCE_FAILED")

BalanceThrows(r) == GrantThrows(r, "balance", "BALANCE_FAILED")

\* calculateTopUpAmount resolved for one task: validateTopUpAmount is called.
\* Nothing awaits the task: a throw is an unhandled rejection.
CalculateTopUpAmountReturns ==
  \E t \in BagToSet(tasks), validateReturns \in BOOLEAN :
    /\ t.stage = "calculating"
    /\ validateReturns \/ unhandled < MaxPolicyFaults
    /\ tasks' = BagReplace(tasks, t, TaskCalculated(t, validateReturns))
    /\ unhandled' = IF validateReturns THEN unhandled ELSE unhandled + 1
    /\ UNCHANGED <<env, run, rolePc, address, threw, pageNo, inflight, nInvoked,
                   nFeeLookups, nBalanceLookups, sinkCalls, failedLogs, nReturned>>

\* calculateTopUpAmount rejected for one task.
CalculateTopUpAmountThrows ==
  \E t \in BagToSet(tasks) :
    /\ t.stage = "calculating"
    /\ unhandled < MaxPolicyFaults
    /\ tasks' = BagReplace(tasks, t, TaskRejected(t))
    /\ unhandled' = unhandled + 1
    /\ UNCHANGED <<env, run, rolePc, address, threw, pageNo, inflight, nInvoked,
                   nFeeLookups, nBalanceLookups, sinkCalls, failedLogs, nReturned>>

Next ==
  \/ TopUpDeployments
  \/ \E r \in Roles : GetFirstAddressReturns(r)
  \/ \E r \in Roles : GetFirstAddressThrows(r)
  \/ \E r \in Roles : PageReturns(r)
  \/ \E r \in Roles : PageThrows(r)
  \/ \E r \in Roles : FeeAllowanceReturns(r)
  \/ \E r \in Roles : FeeAllowanceThrows(r)
  \/ \E r \in Roles : BalanceReturns(r)
  \/ \E r \in Roles : BalanceThrows(r)
  \/ CalculateTopUpAmountReturns
  \/ CalculateTopUpAmountThrows

Spec == Init /\ [][Next]_vars

SpecFullPages == InitFullPages /\ [][Next]_vars

\* ------------------------------------------------------------ properties

Entries(r) == BagToSet(inflight[r])

AllEntries == UNION {Entries(r) : r \in Roles}

\* Per-grant operations of role r that have not settled.
InFlight(r) == BagCount(inflight[r], IsPending)

\* Grants the registry holds for an owner type.
GrantsOfType(t) ==
  Len(SelectSeq(env.grants,
                LAMBDA g : \E r \in Roles : /\ OwnerTypeOf(r) = t
                                            /\ g[SideOf(r)] = WalletAddress(r)))

\* Nothing is pending any more: no pass awaits a wallet, a page or a grant.
Quiet ==
  /\ run # "idle"
  /\ \A r \in Roles : rolePc[r] \in {"idle", "done", "failed"} /\ InFlight(r) = 0

\* C1: whatever per-grant lookups throw, as long as every wallet and every
\* page request answers, a run that has come to rest has invoked topUpForGrant
\* once for every grant of every role and topUpDeployments completed normally.
C1_EveryGrantProcessedRunCompletes ==
  (Quiet /\ \A r \in Roles : threw[r] = "nothing") =>
    /\ run = "done"
    /\ \A t \in OwnerTypes : nInvoked[t] = GrantsOfType(t)

\* C2: the managed pass (its address resolution, its page requests, its
\* per-grant operations) exists only once both custodial passes resolved with
\* every one of their per-grant operations returned; no managed operation is
\* in flight together with a custodial one.
C2_ManagedAfterCustodialDrained ==
  /\ rolePc[ManagedRole] # "idle" =>
       \A r \in CustodialRoles :
         /\ rolePc[r] = "done"
         /\ \A e \in Entries(r) : e.stage \in {"ok", "caught"}
  /\ InFlight(ManagedRole) > 0 => \A r \in CustodialRoles : InFlight(r) = 0

\* C2 happens: a managed operation is in flight after custodial grants of
\* both roles were processed.
C2_Witness ==
  /\ InFlight(ManagedRole) > 0
  /\ \A r \in CustodialRoles : Entries(r) # {}

\* C3: while a pass asks for its next page nothing of the previous page is
\* pending, and every operation in flight belongs to the page delivered last.
C3_NextPageAfterPageSettled ==
  \A r \in Roles :
    /\ rolePc[r] = "fetching" => InFlight(r) = 0
    /\ \A e \in Entries(r) :
         IsPending(e) =>
           \E i \in 1..Len(PageOf(GrantsOfRole(r), PageSize(PageLimit), pageNo[r])) :
             PageOf(GrantsOfRole(r), PageSize(PageLimit), pageNo[r])[i] = e.grant

\* C3 happens: a second page is asked for after the grants of the first
\* settled.
C3_Witness ==
  \E r \in Roles :
    /\ rolePc[r] = "fetching"
    /\ pageNo[r] >= 1
    /\ Entries(r) # {}

\* C4: execWithErrorHandler never raises, whatever the sink does: no wrapper
\* rejects, and every error caught is logged as TOP_UP_FAILED with the event
\* id the sink returned.
C4_WrapperNeverRaises ==
  \A e \in AllEntries :
    /\ e.stage # "raised"
    /\ e.stage = "caught" =>
         [event |-> "TOP_UP_FAILED", error |-> e.error,
          sentryEventId |-> e.sentryEventId] \in failedLogs

\* C5: a page request that throws is not reported to the sink (nothing is
\* captured, nothing logged by that step), topUpDeployments has failed, and
\* after a custodial page failure the managed pass never starts.
C5_PageFailurePropagates ==
  /\ [](\A r \in Roles :
          threw[r] = "paginateDeploymentGrants" =>
            /\ run = "failed"
            /\ rolePc[r] = "failed"
            /\ r \in CustodialRoles => rolePc[ManagedRole] = "idle")
  /\ [][\A r \in Roles :
          PageThrows(r) => sinkCalls' = sinkCalls /\ failedLogs' = failedLogs]_vars

\* C5 happens: a custodial pass lost a later page after its first was
\* processed.
C5_Witness ==
  \E r \in CustodialRoles :
    /\ threw[r] = "paginateDeploymentGrants"
    /\ pageNo[r] >= 1
    /\ Entries(r) # {}

\* C6: a pass never has more than CONCURRENCY per-grant operations in flight,
\* and a registry of 2 * CONCURRENCY + 3 grants that serves pages of the
\* requested size delivers 3 pages (10, 10 and 3 grants): never a fourth, and
\* all three by the time the pass resolved.
C6_AtMostTenInFlightThreePages ==
  \A r \in Roles :
    /\ InFlight(r) <= CONCURRENCY
    /\ (Len(GrantsOfRole(r)) = 2 * CONCURRENCY + 3 /\ env.pageCap >= CONCURRENCY) =>
         /\ pageNo[r] <= 3
         /\ rolePc[r] = "done" => pageNo[r] = 3
         /\ pageNo[r] = 3 => BagCardinality(inflight[r]) = 3

\* C6 happens: the second page of ten is in flight as a whole.
C6_Witness ==
  \E r \in Roles : pageNo[r] = 2 /\ InFlight(r) = CONCURRENCY

\* C7: a managed grant never asks for the fee allowance and carries the
\* sentinel as feesLimit, into the Balances returned; over the run there are
\* as many fee-allowance lookups as custodial grants processed.
C7_ManagedSkipsFeeLookup ==
  /\ \A e \in AllEntries :
       e.ownerType = "MANAGED" =>
         /\ e.stage # "fee"
         /\ e.feeReq = None
         /\ e.feesLimit = UNLIMITED_FEES_MANAGED_BALANCE
         /\ e.stage = "ok" => /\ e.balances.feesLimit = UNLIMITED_FEES_MANAGED_BALANCE
                              /\ e.balances.isManaged
  /\ nFeeLookups = nInvoked["CUSTODIAL"]

\* C7 happens: a managed grant's balances were collected after custodial
\* grants were processed.
C7_Witness ==
  /\ \E e \in AllEntries : e.ownerType = "MANAGED" /\ e.stage = "ok"
  /\ nInvoked["CUSTODIAL"] > 0

\* C8: a custodial grant asks for the fee allowance of (its granter, its
\* grantee); feesLimit is the amount of the coin of the grant's denom in the
\* allowance's spend limit, 0 when there is none.
C8_CustodialFeesLimit ==
  \A e \in AllEntries :
    e.ownerType = "CUSTODIAL" =>
      /\ e.feeReq = [granter |-> e.grant.granter, grantee |-> e.grant.grantee]
      /\ (e.stage = "balance" \/ e.stage = "ok") =>
           LET limits == e.feeResp.allowance.spend_limit
               denom == e.grant.authorization.spend_limit.denom
               matching == {i \in 1..Len(limits) : limits[i].denom = denom}
           IN /\ \A i \in matching : e.feesLimit = ParseFloat(limits[i].amount)
              /\ matching = {} => e.feesLimit = 0
              /\ e.stage = "ok" => /\ e.balances.feesLimit = e.feesLimit
                                   /\ ~e.balances.isManaged

\* C8 happens: the allowance of a processed custodial grant has coins, none
\* of the grant's denom.
C8_Witness ==
  \E e \in AllEntries :
    /\ e.ownerType = "CUSTODIAL"
    /\ e.stage = "ok"
    /\ e.feeResp.allowance.spend_limit # <<>>
    /\ \A i \in 1..Len(e.feeResp.allowance.spend_limit) :
         e.feeResp.allowance.spend_limit[i].denom #
           e.grant.authorization.spend_limit.denom

\* C9: the one balance a grant asks for is its granter's for a custodial
\* owner and its grantee's for a managed one, in the grant's denom.
C9_BalanceOfOwnerSide ==
  /\ \A e \in AllEntries :
       (e.stage = "balance" \/ e.stage = "ok") =>
         e.balReq = [address |-> IF e.ownerType = "CUSTODIAL" THEN e.grant.granter
                                 ELSE e.grant.grantee,
                     denom |-> e.grant.authorization.spend_limit.denom]
  /\ nBalanceLookups <= nInvoked["CUSTODIAL"] + nInvoked["MANAGED"]

\* C9 happens: balances were collected for a custodial and for a managed
\* grant.
C9_Witness ==
  /\ \E e \in AllEntries : e.ownerType = "CUSTODIAL" /\ e.stage = "ok"
  /\ \E e \in AllEntries : e.ownerType = "MANAGED" /\ e.stage = "ok"

\* C10: both custodial passes start when topUpDeployments is called: once
\* the run has started no custodial pass is waiting for the other to end.
C10_CustodialPassesConcurrent ==
  run # "idle" => \A r \in CustodialRoles : rolePc[r] # "idle"

\* C10 happens: both custodial passes have grants in flight, and each has
\* further pages outstanding.
C10_Witness ==
  \A r \in CustodialRoles :
    /\ InFlight(r) > 0
    /\ HasNextPage(GrantsOfRole(r), PageSize(PageLimit), pageNo[r])

\* Per-grant operations that have not settled, over all roles.
TotalInFlight == InFlight("UAKT_TOP_UP") + InFlight("USDC_TOP_UP") + InFlight(ManagedRole)

\* The Balances of the end-to-end scenario: a custodial uakt grant of 500,
\* balance 42, fee allowance 5.
ScenarioBalances ==
  [denom |-> "uakt", feesLimit |-> 5, deploymentLimit |-> 500, balance |-> 42,
   isManaged |-> FALSE]

\* C11: the sink was called once for every grant whose processing threw (the
\* grants invoked that neither returned nor are pending) and for no grant that
\* returned; a custodial uakt grant of 500 with fee allowance 5 and balance 42
\* yields {uakt, 5, 500, 42, not managed}, and with no throw no sink call.
C11_SinkOncePerFailedGrant ==
  /\ sinkCalls = nInvoked["CUSTODIAL"] + nInvoked["MANAGED"] - nReturned - TotalInFlight
  /\ \A e \in AllEntries :
       e.stage = "ok" =>
         /\ e.error = None
         /\ e.sentryEventId = None
         /\ ( /\ e.ownerType = "CUSTODIAL"
              /\ e.grant.authorization.spend_limit = Coin("uakt", Amount500)
              /\ \E i \in 1..Len(e.feeResp.allowance.spend_limit) :
                   e.feeResp.allowance.spend_limit[i] = Coin("uakt", Amount5)
              /\ e.balResp.amount = Amount42 ) => e.balances = ScenarioBalances

\* C11 happens: the run of the end-to-end scenario completed, its Balances
\* collected and the sink never called.
C11_Witness ==
  /\ run = "done"
  /\ sinkCalls = 0
  /\ \E e \in AllEntries : e.stage = "ok" /\ e.balances = ScenarioBalances

\* C12: every grant a custodial pass processes was received by that pass's own
\* wallet (the wallet is its grantee) and is processed as CUSTODIAL; every
\* grant the managed pass processes was issued by the managed wallet and is
\* processed as MANAGED; a pass that resolved has processed grants exactly
\* when the registry holds some on its side.
C12_EachPassItsOwnSideAndType ==
  \A r \in Roles :
    /\ address[r] \in {Unresolved, WalletAddress(r)}
    /\ \A e \in Entries(r) :
         IF r \in CustodialRoles
           THEN e.ownerType = "CUSTODIAL" /\ e.grant.grantee = WalletAddress(r)
           ELSE e.ownerType = "MANAGED" /\ e.grant.granter = WalletAddress(r)
    /\ rolePc[r] = "done" =>
         (Entries(r) = {} <=>
            ~\E i \in 1..Len(env.grants) :
               IF r \in CustodialRoles
                 THEN env.grants[i].grantee = WalletAddress(r)
                 ELSE env.grants[i].granter = WalletAddress(r))

\* C12 happens: the registry holds a grant a custodial wallet issued and one
\* the managed wallet received, and both kinds of pass have processed grants.
C12_Witness ==
  /\ \E i \in 1..Len(env.grants) : env.grants[i].granter \in {WalletAddress(r) : r \in CustodialRoles}
  /\ \E i \in 1..Len(env.grants) : env.grants[i].grantee = WalletAddress(ManagedRole)
  /\ \E r \in CustodialRoles : \E e \in Entries(r) : e.stage = "ok"
  /\ \E e \in Entries(ManagedRole) : e.stage = "ok"

C14_PageFailureAbortsEveryPass ==
  [][(/\ run = "failed"
      /\ \E r \in Roles : threw[r] = "paginateDeploymentGrants"
      /\ \A r \in Roles : rolePc[r] = "failed" => threw[r] = "paginateDeploymentGrants")
       => /\ pageNo' = pageNo
          /\ nInvoked' = nInvoked]_vars

C17_FailsOnlyOnPageOrAddress ==
  /\ run = "failed" => \E r \in Roles : threw[r] # "nothing"
  /\ run = "done" => rolePc[ManagedRole] = "done"

\* C18: the address whose balance was fetched for a grant is the owner whose
\* draining deployments are looked up: the granter of a custodial grant, the
\* grantee of a managed one.
C18_BalanceOfDeploymentsOwner ==
  \A e \in AllEntries :
    e.stage = "ok" =>
      /\ e.balReq.address = e.deploymentsOf
      /\ e.deploymentsOf = IF e.ownerType = "CUSTODIAL" THEN e.grant.granter
                           ELSE e.grant.grantee
      /\ \A i \in 1..Len(e.drainingDeployments) :
           e.drainingDeployments[i].owner = e.balReq.address

\* C18 happens: records of both owner types were returned for owners with
\* draining deployments.
C18_Witness ==
  /\ \E e \in AllEntries : /\ e.stage = "ok"
                           /\ e.ownerType = "MANAGED"
                           /\ e.drainingDeployments # <<>>
  /\ \E t \in BagToSet(tasks) : /\ t.ownerType = "CUSTODIAL"
                                /\ t.deployment.owner = t.grant.granter

\* C19: while custodial passes run at most 2 * CONCURRENCY per-grant
\* operations are in flight over all passes, at most CONCURRENCY per pass;
\* once the managed pass runs at most CONCURRENCY are in flight in all.
C19_InFlightBoundedPerPhase ==
  /\ TotalInFlight <= Cardinality(CustodialRoles) * CONCURRENCY
  /\ Cardinality(CustodialRoles) * CONCURRENCY = 20
  /\ \A r \in Roles : InFlight(r) <= CONCURRENCY
  /\ rolePc[ManagedRole] # "idle" =>
       /\ TotalInFlight <= CONCURRENCY
       /\ \A r \in CustodialRoles : InFlight(r) = 0

\* C19 happens: both custodial passes have a whole page in flight, 20
\* operations in all.
C19_Witness ==
  /\ TotalInFlight = 2 * CONCURRENCY
  /\ \A r \in CustodialRoles : InFlight(r) = CONCURRENCY

\* C20: the steps of topUpForGrant are ordered and stop at the first failure:
\* a custodial grant's balance is asked for only after its fee allowance
\* arrived; the draining deployments are retrieved and policy tasks started
\* only for a grant whose Balances record was returned; a grant whose fee or
\* balance lookup failed has no later lookup, no record and no task.
C20_StepsOrderedShortCircuit ==
  /\ \A e \in AllEntries :
       /\ (e.ownerType = "CUSTODIAL" /\ e.balReq # None) => e.feeResp # None
       /\ e.stage = "fee" => e.balReq = None /\ e.balResp = None /\ e.balances = None
       /\ e.stage = "balance" => e.balResp = None /\ e.balances = None
       /\ e.balances # None => e.stage = "ok" /\ e.balResp # None
       /\ e.stage \in {"caught", "raised"} =>
            /\ e.balResp = None /\ e.balances = None
            /\ e.error = "FEE_ALLOWANCE_FAILED" => e.balReq = None /\ e.feeResp = None
            /\ e.error = "BALANCE_FAILED" => e.balReq # None
            /\ \A t \in BagToSet(tasks) :
                 ~(t.grant = e.grant /\ t.ownerType = e.ownerType)
  /\ \A t \in BagToSet(tasks) : t.balances.denom = t.grant.authorization.spend_limit.denom
  /\ BagCardinality(tasks) <= nReturned * Len(env.draining)

\* C20 happens: of two custodial grants one failed at its fee lookup and one
\* at its balance lookup, after its fee allowance had arrived.
C20_Witness ==
  /\ \E e \in AllEntries : /\ e.ownerType = "CUSTODIAL"
                           /\ e.stage = "caught"
                           /\ e.error = "FEE_ALLOWANCE_FAILED"
  /\ \E e \in AllEntries : /\ e.ownerType = "CUSTODIAL"
                           /\ e.stage = "caught"
                           /\ e.error = "BALANCE_FAILED"
                           /\ e.feeResp # None

====
